---- MODULE Spec2Model ----
(***************************************************************************)
(* Navigation controller, click interceptor and markup rewriter of the     *)
(* ProxyPass frontend (src/frontend/src/App.tsx, utils/rewriteHtml,        *)
(* hooks/useQueries).  JavaScript strings are TLA+ strings; a nullable     *)
(* value (string | null) is the empty tuple Null or the one-tuple Some(s). *)
(***************************************************************************)
EXTENDS Integers, Sequences, FiniteSets, TLC

(***************************************************************************)
(* Bounds of the model.                                                    *)
(***************************************************************************)
\* most fetches in flight at the same time
MaxInflight == 2
\* no navigation is issued once the history or the cursor could pass this
MaxHistory == 3
MaxRewrites == 2

(***************************************************************************)
(* Nullable values.                                                        *)
(***************************************************************************)
Null == <<>>
Some(s) == <<s>>
Val(o) == o[1]
\* JavaScript truthiness of a string | null value
Truthy(o) == o # Null /\ Val(o) # ""

(***************************************************************************)
(* String primitives: String.prototype.startsWith, trim, toLowerCase.      *)
(***************************************************************************)
CharAt(s, i) == SubSeq(s, i, i)

startsWithAt(s, p, i) ==
    /\ i >= 1
    /\ i + Len(p) - 1 <= Len(s)
    /\ SubSeq(s, i, i + Len(p) - 1) = p

startsWith(s, p) == startsWithAt(s, p, 1)

IsWhitespace(c) == c \in {" ", "\t", "\n", "\r", "\f"}

RECURSIVE trimStart(_)
trimStart(s) ==
    IF s # "" /\ IsWhitespace(CharAt(s, 1)) THEN trimStart(SubSeq(s, 2, Len(s))) ELSE s

RECURSIVE trimEnd(_)
trimEnd(s) ==
    IF s # "" /\ IsWhitespace(CharAt(s, Len(s))) THEN trimEnd(SubSeq(s, 1, Len(s) - 1)) ELSE s

trim(s) == trimEnd(trimStart(s))

UpperChars == "ABCDEFGHIJKLMNOPQRSTUVWXYZ"
LowerChars == "abcdefghijklmnopqrstuvwxyz"

LowerOf == [c \in {CharAt(UpperChars, k) : k \in 1..26} |->
               CharAt(LowerChars, CHOOSE k \in 1..26 : CharAt(UpperChars, k) = c)]

toLowerChar(c) == IF c \in DOMAIN LowerOf THEN LowerOf[c] ELSE c

\* character by character; the string is halved to keep the recursion shallow
RECURSIVE toLowerCase(_)
toLowerCase(s) ==
    IF Len(s) <= 1 THEN toLowerChar(s)
    ELSE toLowerCase(SubSeq(s, 1, Len(s) \div 2))
         \o toLowerCase(SubSeq(s, (Len(s) \div 2) + 1, Len(s)))

\* smallest and largest member of a non-empty set of integers
Min(S) == CHOOSE m \in S : \A n \in S : m <= n
Max(S) == CHOOSE m \in S : \A n \in S : n <= m

\* the same, with the value d for the empty set
MinOr(S, d) == IF S = {} THEN d ELSE Min(S)
MaxOr(S, d) == IF S = {} THEN d ELSE Max(S)

\* the value of a nullable, d for null
ValOr(o, d) == IF o = Null THEN d ELSE Val(o)

(***************************************************************************)
(* normalizeUrl (App.tsx).                                                 *)
(***************************************************************************)
\* a normalizeUrl that gives a blank input a scheme too
normalizeTrimmedBlank(trimmed) ==
    IF startsWith(trimmed, "http://") \/ startsWith(trimmed, "https://") THEN trimmed
    ELSE "https://" \o trimmed

\* what normalizeUrl makes of the trimmed input
normalizeTrimmed(trimmed) ==
    IF trimmed = "" THEN ""
    ELSE IF startsWith(trimmed, "http://") \/ startsWith(trimmed, "https://") THEN trimmed
    ELSE "https://" \o trimmed

\* a normalizeUrl that does not trim
normalizeUrlUntrimmed(input) == normalizeTrimmed(input)

normalizeUrl(input) == normalizeTrimmed(trim(input))

(***************************************************************************)
(* The error-sentinel test of loadUrl.                                     *)
(***************************************************************************)
\* the same test without the lower-casing
IsErrorSentinelCaseSensitive(html) ==
    \/ startsWith(html, "error:")
    \/ startsWith(html, "http error")

IsErrorSentinel(html) ==
    \/ startsWith(toLowerCase(html), "error:")
    \/ startsWith(toLowerCase(html), "http error")

(***************************************************************************)
(* extractTitle: /<title[^>]*>(.*?)<\/title>/is, first match, trimmed.     *)
(* In the helpers s is the text and l the same text in lower case.         *)
(***************************************************************************)
\* position of the first ">" at or after position i, 0 when there is none
FirstGt(s, i) == MinOr({j \in i..Len(s) : CharAt(s, j) = ">"}, 0)

\* position of the first "</title>" (any case) at or after position i, 0 when none
FirstTitleClose(l, i) == MinOr({k \in i..Len(l) : startsWithAt(l, "</title>", k)}, 0)

TitleMatchAt(s, l, i) ==
    /\ startsWithAt(l, "<title", i)
    /\ FirstGt(s, i + 6) # 0
    /\ FirstTitleClose(l, FirstGt(s, i + 6) + 1) # 0

\* the group of the match whose start tag ends at j and whose end tag is at k
TitleText(s, j, k) == trim(SubSeq(s, j + 1, k - 1))

TitleAfter(s, l, j) == TitleText(s, j, FirstTitleClose(l, j + 1))

\* S: the positions where the expression matches
FirstTitle(s, l, S) ==
    IF S = {} THEN Null ELSE Some(TitleAfter(s, l, FirstGt(s, Min(S) + 6)))

TitleIn(s, l) == FirstTitle(s, l, {i \in 1..Len(s) : TitleMatchAt(s, l, i)})

extractTitle(html) == TitleIn(html, toLowerCase(html))

(***************************************************************************)
(* The URL parser behind new URL(input) and new URL(input, base), for the  *)
(* http: and https: URLs the application parses.  A parsed URL is a record *)
(* of its components; Null is the TypeError of the constructor.  The       *)
(* model's URLs carry no userinfo, and hosts are not IDNA-mapped beyond    *)
(* lower-casing.                                                           *)
(***************************************************************************)
Digits == "0123456789"
IsDigit(c) == \E k \in 1..10 : CharAt(Digits, k) = c
DigitVal(c) == (CHOOSE k \in 1..10 : CharAt(Digits, k) = c) - 1
IsAlpha(c) == \E k \in 1..26 : CharAt(UpperChars, k) = c \/ CharAt(LowerChars, k) = c

\* forbidden host code points of the printable range, and the space
ForbiddenHostChars == {" ", "#", "/", ":", "<", ">", "?", "@", "[", "\\", "]", "^", "|", "%",
                       "\t", "\n", "\r", "\f"}

\* position of the first character of s at or after i that is in set C, Len(s)+1 when none
FirstOf(s, C, i) == MinOr({k \in i..Len(s) : CharAt(s, k) \in C}, Len(s) + 1)

\* position of the last occurrence of character c in s, 0 when none (lastIndexOf + 1)
LastIndexOf(s, c) == MaxOr({k \in 1..Len(s) : CharAt(s, k) = c}, 0)

RECURSIVE StripSlashes(_)
StripSlashes(s) ==
    IF s # "" /\ CharAt(s, 1) \in {"/", "\\"} THEN StripSlashes(SubSeq(s, 2, Len(s))) ELSE s

RECURSIVE DigitsToInt(_, _)
DigitsToInt(s, acc) ==
    IF s = "" THEN acc
    ELSE IF acc > 65535 THEN acc
    ELSE DigitsToInt(SubSeq(s, 2, Len(s)), 10 * acc + DigitVal(CharAt(s, 1)))

RECURSIVE IntToDigits(_)
IntToDigits(n) ==
    IF n < 10 THEN CharAt(Digits, n + 1)
    ELSE IntToDigits(n \div 10) \o CharAt(Digits, (n % 10) + 1)

DefaultPort(protocol) == IF protocol = "https:" THEN 443 ELSE 80

\* the percent-encode sets of the path, query and fragment states, restricted
\* to the printable ASCII characters they encode (the backquote left out)
PathEncodeSet == {" ", "\"", "<", ">", "#", "?", "{", "}"}
QueryEncodeSet == {" ", "\"", "<", ">", "#", "'"}
FragmentEncodeSet == {" ", "\"", "<", ">"}

PercentCode(c) ==
    CASE c = " " -> "%20" [] c = "\"" -> "%22" [] c = "#" -> "%23" [] c = "'" -> "%27"
      [] c = "<" -> "%3C" [] c = ">" -> "%3E" [] c = "?" -> "%3F"
      [] c = "{" -> "%7B" [] c = "}" -> "%7D" [] OTHER -> c

RECURSIVE PercentEncode(_, _)
PercentEncode(s, set) ==
    IF Len(s) <= 1 THEN (IF s \in set THEN PercentCode(s) ELSE s)
    ELSE PercentEncode(SubSeq(s, 1, Len(s) \div 2), set)
         \o PercentEncode(SubSeq(s, (Len(s) \div 2) + 1, Len(s)), set)

\* tab and newline are removed from the input, C0 control and space trimmed
RECURSIVE RemoveTabNewline(_)
RemoveTabNewline(s) ==
    IF Len(s) <= 1 THEN (IF s \in {"\t", "\n", "\r"} THEN "" ELSE s)
    ELSE RemoveTabNewline(SubSeq(s, 1, Len(s) \div 2))
         \o RemoveTabNewline(SubSeq(s, (Len(s) \div 2) + 1, Len(s)))

\* the segments of a path: the strings between its slashes (a backslash is a
\* slash in a special URL); the path "/a/b" is given without its first slash
RECURSIVE SplitPath(_)
\* k: the position of the first slash of s
SplitPathAt(s, k) ==
    IF k > Len(s) THEN <<s>>
    ELSE <<SubSeq(s, 1, k - 1)>> \o SplitPath(SubSeq(s, k + 1, Len(s)))

SplitPath(s) == SplitPathAt(s, FirstOf(s, {"/", "\\"}, 1))

DropLast(q) == IF Len(q) = 0 THEN q ELSE SubSeq(q, 1, Len(q) - 1)

\* the path state: "." is skipped, ".." shortens the path, a dot segment in
\* the last position leaves an empty last segment
RECURSIVE PathState(_, _)
\* seg: the segment in lower case, enc: the segment percent-encoded
PathSegment(seg, enc, last, rest, out) ==
    IF seg \in {"..", ".%2e", "%2e.", "%2e%2e"}
    THEN PathState(rest, IF last THEN Append(DropLast(out), "") ELSE DropLast(out))
    ELSE IF seg \in {".", "%2e"}
    THEN PathState(rest, IF last THEN Append(out, "") ELSE out)
    ELSE PathState(rest, Append(out, enc))

PathState(segs, out) ==
    IF Len(segs) = 0 THEN out
    ELSE PathSegment(toLowerCase(Head(segs)), PercentEncode(Head(segs), PathEncodeSet),
                     Len(segs) = 1, Tail(segs), out)

RECURSIVE JoinPath(_)
JoinPath(segs) ==
    IF Len(segs) = 0 THEN "" ELSE "/" \o Head(segs) \o JoinPath(Tail(segs))

\* splits what follows the authority (or a relative reference) into path,
\* query and fragment: h is the position of the first "#", q that of the
\* first "?" of what is before it
SplitQuery(t, h, beforeHash, q) ==
    [path |-> SubSeq(beforeHash, 1, q - 1),
     hasQuery |-> q <= Len(beforeHash),
     query |-> SubSeq(beforeHash, q + 1, Len(beforeHash)),
     hasHash |-> h <= Len(t),
     hash |-> SubSeq(t, h + 1, Len(t))]

SplitBeforeHash(t, h, beforeHash) == SplitQuery(t, h, beforeHash, FirstOf(beforeHash, {"?"}, 1))

SplitHash(t, h) == SplitBeforeHash(t, h, SubSeq(t, 1, h - 1))

SplitTail(t) == SplitHash(t, FirstOf(t, {"#"}, 1))

Url(protocol, host, port, segs, search, hash) ==
    [protocol |-> protocol, host |-> host, port |-> port, path |-> segs,
     search |-> search, hash |-> hash]

\* search and hash are serialised with their "?" / "#" (kept even when empty)
SearchOf(t) == IF t.hasQuery THEN "?" \o PercentEncode(t.query, QueryEncodeSet) ELSE ""
HashOf(t) == IF t.hasHash THEN "#" \o PercentEncode(t.hash, FragmentEncodeSet) ELSE ""

\* a path that is empty serialises as "/"
AbsPath(pathText) ==
    IF pathText = "" THEN <<"">>
    ELSE PathState(SplitPath(SubSeq(pathText, 2, Len(pathText))), <<>>)

\* the URL of a host, a port and the split rest t; Null when host or port is invalid
HostAndPort(protocol, hostText, portText, portNum, t) ==
    IF \/ hostText = ""
       \/ \E k \in 1..Len(hostText) : CharAt(hostText, k) \in ForbiddenHostChars
       \/ \E k \in 1..Len(portText) : ~IsDigit(CharAt(portText, k))
       \/ portNum > 65535
    THEN Null
    ELSE Some(Url(protocol, toLowerCase(hostText),
                  IF portText = "" \/ portNum = DefaultPort(protocol)
                  THEN "" ELSE IntToDigits(portNum),
                  AbsPath(t.path), SearchOf(t), HashOf(t)))

ParsePort(protocol, hostText, portText, t) ==
    HostAndPort(protocol, hostText, portText, DigitsToInt(portText, 0), t)

\* colon: the position of the last ":" of the authority, 0 when it has none
SplitAuthority(protocol, auth, colon, t) ==
    ParsePort(protocol,
              IF colon = 0 THEN auth ELSE SubSeq(auth, 1, colon - 1),
              IF colon = 0 THEN "" ELSE SubSeq(auth, colon + 1, Len(auth)),
              t)

Authority(protocol, auth, t) == SplitAuthority(protocol, auth, LastIndexOf(auth, ":"), t)

\* authEnd: the position in r where the authority ends
AuthorityUpTo(protocol, r, authEnd) ==
    Authority(protocol, SubSeq(r, 1, authEnd - 1), SplitTail(SubSeq(r, authEnd, Len(r))))

AuthorityAndTail(protocol, r) == AuthorityUpTo(protocol, r, FirstOf(r, {"/", "\\", "?", "#"}, 1))

\* authority and the rest, for a special scheme: rest follows "scheme:"
ParseAuthority(protocol, rest) == AuthorityAndTail(protocol, StripSlashes(rest))

\* the scheme of the input when it starts with "http:" or "https:" in any case, else ""
SchemeOfLower(l) ==
    IF startsWith(l, "https:") THEN "https:"
    ELSE IF startsWith(l, "http:") THEN "http:"
    ELSE ""

SpecialScheme(input) == SchemeOfLower(toLowerCase(input))

ParseWithScheme(u, protocol) ==
    IF protocol = "" THEN Null
    ELSE ParseAuthority(protocol, SubSeq(u, Len(protocol) + 1, Len(u)))

ParseTrimmed(u) == ParseWithScheme(u, SpecialScheme(u))

\* new URL(input) of an input that has an http(s) scheme
ParseUrl(input) == ParseTrimmed(RemoveTabNewline(trim(input)))

Origin(u) == u.protocol \o "//" \o u.host \o (IF u.port = "" THEN "" ELSE ":" \o u.port)
Href(u) == Origin(u) \o JoinPath(u.path) \o u.search \o u.hash

\* a scheme at the start of the input: a letter, then letters, digits, + - . up to
\* the first ":", which is at position c
SchemeUpTo(input, c) ==
    /\ c <= Len(input) /\ c > 1
    /\ IsAlpha(CharAt(input, 1))
    /\ \A k \in 2..(c - 1) :
          IsAlpha(CharAt(input, k)) \/ IsDigit(CharAt(input, k)) \/ CharAt(input, k) \in {"+", "-", "."}

HasScheme(input) == SchemeUpTo(input, FirstOf(input, {":"}, 1))

\* the serialisation of a parsed URL, Null for a failed parse
HrefOrNull(p) == IF p = Null THEN Null ELSE Some(Href(Val(p)))

\* an absolute URL of another scheme: the scheme, which ends at c, in lower case
LowerScheme(r, c) == toLowerCase(SubSeq(r, 1, c)) \o SubSeq(r, c + 1, Len(r))

\* a reference without a scheme of its own: rel is its split form
ResolveRelative(rel, afterScheme, base) ==
    IF rel.path # "" /\ CharAt(rel.path, 1) \in {"/", "\\"}
    THEN IF Len(rel.path) >= 2 /\ CharAt(rel.path, 2) \in {"/", "\\"}
         THEN HrefOrNull(ParseAuthority(base.protocol, afterScheme))
         ELSE Some(Href(Url(base.protocol, base.host, base.port,
                            AbsPath(rel.path), SearchOf(rel), HashOf(rel))))
    ELSE IF rel.path = ""
    THEN Some(Href(Url(base.protocol, base.host, base.port, base.path,
                       IF rel.hasQuery THEN SearchOf(rel) ELSE base.search,
                       HashOf(rel))))
    ELSE Some(Href(Url(base.protocol, base.host, base.port,
                       PathState(SplitPath(rel.path), DropLast(base.path)),
                       SearchOf(rel), HashOf(rel))))

\* An input with a scheme other than http(s) is an absolute URL of its own
\* and is serialised with its scheme in lower case.
ResolveAfterScheme(r, scheme, afterScheme, base) ==
    IF scheme # "" /\ (scheme # base.protocol
                       \/ (afterScheme # "" /\ CharAt(afterScheme, 1) \in {"/", "\\"}))
    THEN HrefOrNull(ParseAuthority(scheme, afterScheme))
    ELSE IF scheme = "" /\ HasScheme(r)
    THEN Some(LowerScheme(r, FirstOf(r, {":"}, 1)))
    ELSE ResolveRelative(SplitTail(afterScheme), afterScheme, base)

ResolveWithScheme(r, scheme, base) ==
    ResolveAfterScheme(r, scheme, SubSeq(r, Len(scheme) + 1, Len(r)), base)

ResolveTrimmed(r, base) == ResolveWithScheme(r, SpecialScheme(r), base)

\* new URL(input, base).href for a parsed http(s) base; Null when it throws
ResolveAgainst(input, base) == ResolveTrimmed(RemoveTabNewline(trim(input)), base)

(***************************************************************************)
(* rewriteHtml.  Each pass is String.prototype.replace with a global,      *)
(* case-insensitive regular expression: the leftmost match is replaced and *)
(* the scan goes on behind it.  The markup and the URLs of the model hold  *)
(* no "$", which a replacement string would interpret.  In the helpers s   *)
(* is the text a pass works on and l the same text in lower case.          *)
(***************************************************************************)
Quotes == {"'", "\""}
LineTerminators == {"\n", "\r"}

\* position of the first character at or after i that is not \s, Len(s)+1 when none
SkipWs(s, i) == MinOr({k \in i..Len(s) : ~IsWhitespace(CharAt(s, k))}, Len(s) + 1)

\* base.href up to and with its last "/"
BasePathOf(href) == SubSeq(href, 1, LastIndexOf(href, "/"))

\* BaseContext: base, baseOrigin and basePath of rewriteHtml
BaseContext(base) ==
    [protocol |-> base.protocol,
     baseOrigin |-> Origin(base),
     basePath |-> BasePathOf(Href(base))]

\* new URL(url, basePath).href for the parsed basePath b, Null when either throws
ResolveOn(url, b) == IF b = Null THEN Null ELSE ResolveAgainst(url, Val(b))

\* a resolveUrl that hands references with http:// and https:// to new URL
resolveUrlParsingAbsolute(url, ctx) ==
    IF \/ url = ""
       \/ startsWith(url, "data:")
       \/ startsWith(url, "javascript:")
       \/ startsWith(url, "#")
    THEN url
    ELSE IF startsWith(url, "//") THEN ctx.protocol \o url
    ELSE IF startsWith(url, "/") THEN ctx.baseOrigin \o url
    ELSE ValOr(ResolveOn(url, ParseUrl(ctx.basePath)), url)

\* a resolveUrl that tests for "/" before it tests for "//"
resolveUrlRootFirst(url, ctx) ==
    IF \/ url = ""
       \/ startsWith(url, "data:")
       \/ startsWith(url, "javascript:")
       \/ startsWith(url, "#")
    THEN url
    ELSE IF startsWith(url, "http://") \/ startsWith(url, "https://") THEN url
    ELSE IF startsWith(url, "/") THEN ctx.baseOrigin \o url
    ELSE IF startsWith(url, "//") THEN ctx.protocol \o url
    ELSE ValOr(ResolveOn(url, ParseUrl(ctx.basePath)), url)

resolveUrl(url, ctx) ==
    IF \/ url = ""
       \/ startsWith(url, "data:")
       \/ startsWith(url, "javascript:")
       \/ startsWith(url, "#")
    THEN url
    ELSE IF startsWith(url, "http://") \/ startsWith(url, "https://") THEN url
    ELSE IF startsWith(url, "//") THEN ctx.protocol \o url
    ELSE IF startsWith(url, "/") THEN ctx.baseOrigin \o url
    ELSE ValOr(ResolveOn(url, ParseUrl(ctx.basePath)), url)

\* attr\s*=\s*(['"])(.*?)\2 at position a: Null, or the match with its quote,
\* its URL and the position of the closing quote.  v is the position of the
\* opening quote and c that of the next quote of the same kind.
AttrValue(s, a, v, c) ==
    IF /\ c <= Len(s)
       /\ \A k \in (v + 1)..(c - 1) : CharAt(s, k) \notin LineTerminators
    THEN Some([attrAt |-> a, quote |-> CharAt(s, v), url |-> SubSeq(s, v + 1, c - 1), end |-> c])
    ELSE Null

AttrQuote(s, a, v) ==
    IF v <= Len(s) /\ CharAt(s, v) \in Quotes
    THEN AttrValue(s, a, v, FirstOf(s, {CharAt(s, v)}, v + 1))
    ELSE Null

\* e: the position of the first character behind the name that is not \s
AttrEquals(s, a, e) ==
    IF e <= Len(s) /\ CharAt(s, e) = "=" THEN AttrQuote(s, a, SkipWs(s, e + 1)) ELSE Null

AttrMatchAt(s, l, attr, a) ==
    IF startsWithAt(l, attr, a) THEN AttrEquals(s, a, SkipWs(s, a + Len(attr))) ELSE Null

\* [^>]*? is lazy: of the positions A where the attribute matches, the first
FirstAttr(s, l, attr, A) == IF A = {} THEN Null ELSE AttrMatchAt(s, l, attr, Min(A))

\* the attributes of a tag whose name ends before position p, up to the next ">"
TagAttrs(s, l, attr, p, stop) ==
    FirstAttr(s, l, attr, {a \in (p + 1)..(stop - 1) : AttrMatchAt(s, l, attr, a) # Null})

\* (<tag\s[^>]*?)attr... at position i, for one tag name
TagMatchAt(s, l, tag, attr, i) ==
    IF /\ startsWithAt(l, "<" \o tag, i)
       /\ i + 1 + Len(tag) <= Len(s)
       /\ IsWhitespace(CharAt(s, i + 1 + Len(tag)))
    THEN TagAttrs(s, l, attr, i + 1 + Len(tag), FirstOf(s, {">"}, i + 2 + Len(tag)))
    ELSE Null

\* the alternation (?:img|script|...): of the tag names K that match, the first
FirstTag(s, l, tags, attr, i, K) ==
    IF K = {} THEN Null ELSE TagMatchAt(s, l, tags[Min(K)], attr, i)

AnyTagMatchAt(s, l, tags, attr, i) ==
    FirstTag(s, l, tags, attr, i,
             {k \in 1..Len(tags) : TagMatchAt(s, l, tags[k], attr, i) # Null})

\* what the replacer returns behind `before`; mark adds data-proxy-href
AttrText(attr, quote, resolved, mark) ==
    attr \o "=" \o quote \o resolved \o quote
    \o (IF mark THEN " data-proxy-href=" \o quote \o resolved \o quote ELSE "")

\* one attribute pass over s from position from on
RECURSIVE RewriteAttrFrom(_, _, _, _, _, _, _)
\* m: the leftmost match
ReplaceAttr(s, l, from, tags, attr, mark, ctx, m) ==
    SubSeq(s, from, m.attrAt - 1)
    \o AttrText(attr, m.quote, resolveUrl(m.url, ctx), mark)
    \o RewriteAttrFrom(s, l, m.end + 1, tags, attr, mark, ctx)

\* M: the positions at or after from where the expression matches
RewriteAttrAt(s, l, from, tags, attr, mark, ctx, M) ==
    IF M = {} THEN SubSeq(s, from, Len(s))
    ELSE ReplaceAttr(s, l, from, tags, attr, mark, ctx,
                     Val(AnyTagMatchAt(s, l, tags, attr, Min(M))))

RewriteAttrFrom(s, l, from, tags, attr, mark, ctx) ==
    RewriteAttrAt(s, l, from, tags, attr, mark, ctx,
                  {i \in from..Len(s) :
                      CharAt(s, i) = "<" /\ AnyTagMatchAt(s, l, tags, attr, i) # Null})

RewriteAttr(s, from, tags, attr, mark, ctx) ==
    RewriteAttrFrom(s, toLowerCase(s), from, tags, attr, mark, ctx)

\* url\(\s*(['"]?)((?!data:)[^'")]+)\1\s*\) at position i.  \s* and ['"]? are
\* greedy and give back what they took when the rest fails: w is where the
\* white space ends, and a quote at w is tried as the quote before it is tried
\* as no quote.  The group starts at g and runs to gEnd, before the next quote
\* or parenthesis; q is the quote ("" for none) and close where ")" has to be.
CssGroup(s, q, g, gEnd, close) ==
    IF /\ gEnd >= g
       /\ q # "" => (gEnd + 1 <= Len(s) /\ CharAt(s, gEnd + 1) = q)
       /\ close <= Len(s) /\ CharAt(s, close) = ")"
    THEN Some([quote |-> q, url |-> SubSeq(s, g, gEnd), end |-> close])
    ELSE Null

CssGroupUpTo(s, q, g, gEnd) ==
    CssGroup(s, q, g, gEnd, IF q # "" THEN SkipWs(s, gEnd + 2) ELSE gEnd + 1)

CssGroupFrom(s, l, q, g) ==
    IF startsWithAt(l, "data:", g) THEN Null
    ELSE CssGroupUpTo(s, q, g, FirstOf(s, {"'", "\"", ")"}, g) - 1)

CssMatchWith(s, l, w, quoted) ==
    IF quoted THEN CssGroupFrom(s, l, CharAt(s, w), w + 1) ELSE CssGroupFrom(s, l, "", w)

\* the match with the white space ending at w <= Len(s)
CssMatchBehind(s, l, w) ==
    IF CharAt(s, w) \in Quotes /\ CssMatchWith(s, l, w, TRUE) # Null
    THEN CssMatchWith(s, l, w, TRUE)
    ELSE CssMatchWith(s, l, w, FALSE)

\* W: the ends of the white space with which the rest matches; the longest is taken
LongestWs(s, l, W) == IF W = {} THEN Null ELSE CssMatchBehind(s, l, Max(W))

CssMatchAt(s, l, i) ==
    IF ~startsWithAt(l, "url(", i) THEN Null
    ELSE LongestWs(s, l, {w \in (i + 4)..SkipWs(s, i + 4) :
                             w <= Len(s) /\ CssMatchBehind(s, l, w) # Null})

RECURSIVE RewriteCssFrom(_, _, _, _)
\* m: the leftmost match, at position i
ReplaceCss(s, l, from, ctx, i, m) ==
    SubSeq(s, from, i - 1)
    \o "url(" \o m.quote \o resolveUrl(trim(m.url), ctx) \o m.quote \o ")"
    \o RewriteCssFrom(s, l, m.end + 1, ctx)

RewriteCssAt(s, l, from, ctx, i) == ReplaceCss(s, l, from, ctx, i, Val(CssMatchAt(s, l, i)))

\* M: the positions at or after from where the expression matches
RewriteCssIn(s, l, from, ctx, M) ==
    IF M = {} THEN SubSeq(s, from, Len(s)) ELSE RewriteCssAt(s, l, from, ctx, Min(M))

RewriteCssFrom(s, l, from, ctx) ==
    RewriteCssIn(s, l, from, ctx, {i \in from..Len(s) : CssMatchAt(s, l, i) # Null})

RewriteCss(s, from, ctx) == RewriteCssFrom(s, toLowerCase(s), from, ctx)

\* /<base\s/i.test(s)
HasBaseTagIn(s, l) ==
    \E i \in 1..Len(s) :
        startsWithAt(l, "<base", i) /\ i + 5 <= Len(s) /\ IsWhitespace(CharAt(s, i + 5))

HasBaseTag(s) == HasBaseTagIn(s, toLowerCase(s))

\* s.replace(/(<head[^>]*>)/i, `$1<base href="${baseUrl}">`); e is where $1 ends
InjectBehind(s, baseUrl, e) ==
    SubSeq(s, 1, e) \o "<base href=\"" \o baseUrl \o "\">" \o SubSeq(s, e + 1, Len(s))

\* M: the positions where the expression matches
InjectAt(s, baseUrl, M) ==
    IF M = {} THEN s ELSE InjectBehind(s, baseUrl, FirstGt(s, Min(M) + 5))

InjectIn(s, l, baseUrl) ==
    InjectAt(s, baseUrl, {i \in 1..Len(s) : startsWithAt(l, "<head", i) /\ FirstGt(s, i + 5) # 0})

InjectBase(s, baseUrl) == InjectIn(s, toLowerCase(s), baseUrl)

\* the base tag is injected when the rewritten markup has none
AddBase(s, baseUrl) == IF ~HasBaseTag(s) THEN InjectBase(s, baseUrl) ELSE s

MediaTags == <<"img", "script", "iframe", "video", "audio", "source", "embed">>

\* the passes of rewriteHtml, in their order
RewritePasses(html, baseUrl, ctx) ==
    LET r1 == RewriteAttr(html, 1, <<"a">>, "href", TRUE, ctx)
        r2 == RewriteAttr(r1, 1, MediaTags, "src", FALSE, ctx)
        r3 == RewriteAttr(r2, 1, <<"link">>, "href", FALSE, ctx)
        r4 == RewriteAttr(r3, 1, <<"form">>, "action", FALSE, ctx)
        r5 == RewriteCss(r4, 1, ctx)
    IN AddBase(r5, baseUrl)

\* base: new URL(baseUrl), Null when it throws
RewriteWithBase(html, baseUrl, base) ==
    IF base = Null THEN html ELSE RewritePasses(html, baseUrl, BaseContext(Val(base)))

rewriteHtml(html, baseUrl) == RewriteWithBase(html, baseUrl, ParseUrl(baseUrl))

(***************************************************************************)
(* The anchors of the document the iframe parses from srcDoc, as the click *)
(* listener reads them: anchor.getAttribute(name).  A tag runs to the next *)
(* ">"; an attribute is a name that follows white space, with a quoted or  *)
(* an unquoted value or none.                                              *)
(***************************************************************************)
\* the value that starts at position v of the tag
ValueFrom(tag, v) ==
    IF v > Len(tag) THEN ""
    ELSE IF CharAt(tag, v) \in Quotes
    THEN SubSeq(tag, v + 1, FirstOf(tag, {CharAt(tag, v)}, v + 1) - 1)
    ELSE SubSeq(tag, v, FirstOf(tag, {" ", "\t", "\n", "\r", "\f", ">"}, v) - 1)

\* e: the position of the first character behind the name that is not white space
ValueBehind(tag, e) ==
    IF e > Len(tag) \/ CharAt(tag, e) # "=" THEN "" ELSE ValueFrom(tag, SkipWs(tag, e + 1))

\* A: the positions of the attributes of this name, of which the first counts
AttributeAt(tag, name, A) ==
    IF A = {} THEN Null ELSE Some(ValueBehind(tag, SkipWs(tag, Min(A) + Len(name))))

AttributeIn(tag, l, name) ==
    AttributeAt(tag, name,
                {a \in 2..Len(tag) :
                    /\ IsWhitespace(CharAt(tag, a - 1))
                    /\ startsWithAt(l, name, a)
                    /\ a + Len(name) <= Len(tag)
                    /\ (IsWhitespace(CharAt(tag, a + Len(name)))
                        \/ CharAt(tag, a + Len(name)) \in {"=", ">", "/"})})

getAttribute(tag, name) == AttributeIn(tag, toLowerCase(tag), name)

\* the start tags of the a elements of a document
AnchorTagsIn(doc, l) ==
    {SubSeq(doc, i, FirstGt(doc, i)) :
        i \in {k \in 1..Len(doc) :
                /\ startsWithAt(l, "<a", k)
                /\ k + 2 <= Len(doc)
                /\ (IsWhitespace(CharAt(doc, k + 2)) \/ CharAt(doc, k + 2) \in {">", "/"})
                /\ FirstGt(doc, k) # 0}}

AnchorTags(doc) == AnchorTagsIn(doc, toLowerCase(doc))

\* what a click can hit: an element with no enclosing anchor, or an anchor
NoAnchor == "no anchor"
ClickTargets(doc) == {NoAnchor} \cup AnchorTags(doc)

\* proxyHref || anchor.getAttribute('href')
ProxyHrefOr(proxyHref, anchor) ==
    IF Truthy(proxyHref) THEN proxyHref ELSE getAttribute(anchor, "href")

EffectiveHref(anchor) == ProxyHrefOr(getAttribute(anchor, "data-proxy-href"), anchor)

\* !href || href.startsWith('#') || href.startsWith('javascript:')
IgnoredHref(href) ==
    \/ ~Truthy(href)
    \/ startsWith(Val(href), "#")
    \/ startsWith(Val(href), "javascript:")

\* the click is left to the browser: no anchor, or an ignored href
ClickIgnored(target) == target = NoAnchor \/ IgnoredHref(EffectiveHref(target))

\* e.preventDefault() and e.stopPropagation() are reached
DefaultPrevented(target) == ~ClickIgnored(target)

(***************************************************************************)
(* The environment: what the user types and what the gateway answers.      *)
(***************************************************************************)
\* what the user types: a host name between blanks, and a blank
RawInputs == {" a ", " "}

\* one page: a protocol-relative link to a host that no URL can have, a
\* fragment link, an anchor written "<a/ ", which the rewriter passes over,
\* with a blank href, and an anchor with an empty href
Pages == {"<head><title> T </title></head><a href=\"//^\">b</a><a href='#f'>f</a><a/ href=' '>w</a><a href=''>e</a>"}

Sentinels == {"ERROR: x", "Http Error 5"}

\* what mutateAsync can resolve with
Responses == Pages \cup Sentinels

\* a rejection is an Error with a message: the throw of useProxyRequest when
\* the actor is not ready, or a failure of actor.processRequest
Rejections == {[isError |-> TRUE, message |-> "ERROR: x"]}

(***************************************************************************)
(* The pure functions tabulated over the values the environment can make   *)
(* them see, so that each is computed once: the URLs that can be fetched   *)
(* are the normalised inputs and, from there on, the normalised link       *)
(* destinations of the pages rewritten for a URL already in the set.       *)
(***************************************************************************)
LinksOf(html, url) ==
    {normalizeUrl(Val(EffectiveHref(t))) :
        t \in {a \in AnchorTags(rewriteHtml(html, url)) : ~ClickIgnored(a)}} \ {""}

RECURSIVE UrlClosure(_)
\* N: the set U with the links of the pages fetched for its URLs
UrlClosureStep(U, N) == IF N = U THEN U ELSE UrlClosure(N)

UrlClosure(U) ==
    UrlClosureStep(U, U \cup UNION {LinksOf(html, url) : html \in Responses, url \in U})

FetchedUrls == UrlClosure({normalizeUrl(r) : r \in RawInputs} \ {""})

rewriteHtmlOf == [html \in Responses, url \in FetchedUrls |-> rewriteHtml(html, url)]
extractTitleOf == [html \in Responses |-> extractTitle(html)]
IsErrorSentinelOf == [html \in Responses |-> IsErrorSentinel(html)]

RenderedDocs == {rewriteHtmlOf[html, url] : html \in Responses, url \in FetchedUrls}
ClickTargetsOf == [doc \in RenderedDocs |-> ClickTargets(doc)]
ClickIgnoredOf == [t \in UNION {ClickTargets(doc) : doc \in RenderedDocs} |-> ClickIgnored(t)]
EffectiveHrefOf == [t \in UNION {AnchorTags(doc) : doc \in RenderedDocs} |-> EffectiveHref(t)]
DefaultPreventedOf ==
    [t \in UNION {ClickTargets(doc) : doc \in RenderedDocs} |-> DefaultPrevented(t)]

(***************************************************************************)
(* State of the App component.                                             *)
(*   inputUrl .. pageTitle  the useState cells of App                      *)
(*   inflight    the calls of proxyMutation.mutateAsync that have not      *)
(*               settled, in the order they were issued; each carries the  *)
(*               arguments and the captured historyIndex of its loadUrl    *)
(*   isPending   proxyMutation.isPending: the mutation observer follows    *)
(*               the most recently issued mutation only                    *)
(*   listener    the iframe is mounted, with srcDoc = proxiedHtml, exactly *)
(*               while proxiedHtml is truthy; listener is the historyIndex *)
(*               captured by the loadUrl closure that the click listener   *)
(*               of the iframe's document holds, Null until the document's *)
(*               load event has been handled                               *)
(***************************************************************************)
VARIABLES inputUrl, currentUrl, proxiedHtml, errorMsg, history, historyIndex,
          pageTitle, inflight, isPending, listener

(***************************************************************************)
(* The rewriter taken by itself, for what it does on any markup:           *)
(*   call     the arguments of one call of rewriteHtml, or of its inner    *)
(*            resolveUrl with the base URL of the rewriteHtml around it;   *)
(*            Null in the App                                              *)
(*   results  what the call returned and, for rewriteHtml, what it         *)
(*            returned when applied again to its own output                *)
(***************************************************************************)
VARIABLES call, results

appVars == <<inputUrl, currentUrl, proxiedHtml, errorMsg, history, historyIndex,
             pageTitle, inflight, isPending, listener>>

rewriterVars == <<call, results>>

vars == <<inputUrl, currentUrl, proxiedHtml, errorMsg, history, historyIndex,
          pageTitle, inflight, isPending, listener, call, results>>

\* what the user sees and the history: the NavigationState and HistoryStack
navState == <<currentUrl, proxiedHtml, errorMsg, pageTitle, history, historyIndex>>

\* the App after its first render
Mounted ==
    /\ inputUrl = ""
    /\ currentUrl = ""
    /\ proxiedHtml = Null
    /\ errorMsg = Null
    /\ history = <<>>
    /\ historyIndex = -1
    /\ pageTitle = Null
    /\ inflight = <<>>
    /\ isPending = FALSE
    /\ listener = Null

Init ==
    /\ Mounted
    /\ call = Null
    /\ results = <<>>

isLoading == isPending
canGoBack == historyIndex > 0
canGoForward == historyIndex < Len(history) - 1

\* number of fetches in flight that will push a history entry when they succeed
Adders == Cardinality({i \in 1..Len(inflight) : inflight[i].addToHistory})

\* the bounds of the model: a navigation is issued only while they leave room
Room(addToHistory) ==
    /\ Len(inflight) < MaxInflight
    /\ addToHistory =>
        /\ Len(history) + Adders < MaxHistory
        /\ historyIndex + 1 + Adders < MaxHistory

(***************************************************************************)
(* loadUrl up to its await: normalise, return on an empty target, clear    *)
(* the error, set the current and the input URL and call the gateway.      *)
(* captured is the historyIndex of the render that created the closure.    *)
(***************************************************************************)
Request(url, addToHistory, captured) ==
    [url |-> url, addToHistory |-> addToHistory, historyIndex |-> captured]

loadUrl(url, addToHistory, captured) ==
    LET normalized == normalizeUrl(url) IN
    IF normalized = ""
    THEN UNCHANGED <<errorMsg, currentUrl, inputUrl, inflight, isPending>>
    ELSE /\ errorMsg' = Null
         /\ currentUrl' = normalized
         /\ inputUrl' = normalized
         /\ inflight' = Append(inflight, Request(normalized, addToHistory, captured))
         /\ isPending' = TRUE

(***************************************************************************)
(* The URL input: onChange and its reset button.  The input is disabled    *)
(* while isLoading.                                                        *)
(***************************************************************************)
SetInputUrl(value) ==
    /\ ~isLoading
    /\ inputUrl # value
    /\ inputUrl' = value
    /\ UNCHANGED <<currentUrl, proxiedHtml, errorMsg, history, historyIndex, pageTitle,
                   inflight, isPending, listener>>
    /\ UNCHANGED rewriterVars

\* the reset button inside the input box, rendered when inputUrl is not empty
ResetInputUrl ==
    /\ inputUrl # ""
    /\ inputUrl' = ""
    /\ UNCHANGED <<currentUrl, proxiedHtml, errorMsg, history, historyIndex, pageTitle,
                   inflight, isPending, listener>>
    /\ UNCHANGED rewriterVars

(***************************************************************************)
(* The intent handlers.  Each control is disabled while isLoading; the     *)
(* other half of its disabled attribute repeats the guard of its handler,  *)
(* which is what decides here whether the intent has an effect.            *)
(***************************************************************************)
\* <form onSubmit>: the submit button is disabled={!inputUrl.trim() || isLoading}
handleSubmit ==
    /\ ~isLoading
    /\ trim(inputUrl) # "" => Room(TRUE)
    /\ IF trim(inputUrl) # ""
       THEN loadUrl(inputUrl, TRUE, historyIndex)
       ELSE UNCHANGED <<errorMsg, currentUrl, inputUrl, inflight, isPending>>
    /\ UNCHANGED <<proxiedHtml, history, historyIndex, pageTitle, listener>>
    /\ UNCHANGED rewriterVars

\* the back button, disabled={!canGoBack || isLoading}.  history[newIndex] is
\* undefined when the cursor is past the end of the history: reading .url then
\* throws after setHistoryIndex was called, and loadUrl is not reached.
handleBack ==
    /\ ~isLoading
    /\ historyIndex > 0 => Room(FALSE)
    /\ IF historyIndex > 0
       THEN LET newIndex == historyIndex - 1 IN
            /\ historyIndex' = newIndex
            /\ IF newIndex + 1 <= Len(history)
               THEN loadUrl(history[newIndex + 1].url, FALSE, historyIndex)
               ELSE UNCHANGED <<errorMsg, currentUrl, inputUrl, inflight, isPending>>
       ELSE UNCHANGED <<historyIndex, errorMsg, currentUrl, inputUrl, inflight, isPending>>
    /\ UNCHANGED <<proxiedHtml, history, pageTitle, listener>>
    /\ UNCHANGED rewriterVars

\* a forward that replays the entry the cursor was on
handleForwardSameEntry ==
    /\ ~isLoading
    /\ historyIndex < Len(history) - 1 => Room(FALSE)
    /\ IF historyIndex < Len(history) - 1
       THEN LET newIndex == historyIndex + 1 IN
            /\ historyIndex' = newIndex
            /\ loadUrl(history[historyIndex + 1].url, FALSE, historyIndex)
       ELSE UNCHANGED <<historyIndex, errorMsg, currentUrl, inputUrl, inflight, isPending>>
    /\ UNCHANGED <<proxiedHtml, history, pageTitle, listener>>
    /\ UNCHANGED rewriterVars

\* the forward button, disabled={!canGoForward || isLoading}
handleForward ==
    /\ ~isLoading
    /\ historyIndex < Len(history) - 1 => Room(FALSE)
    /\ IF historyIndex < Len(history) - 1
       THEN LET newIndex == historyIndex + 1 IN
            /\ historyIndex' = newIndex
            /\ loadUrl(history[newIndex + 1].url, FALSE, historyIndex)
       ELSE UNCHANGED <<historyIndex, errorMsg, currentUrl, inputUrl, inflight, isPending>>
    /\ UNCHANGED <<proxiedHtml, history, pageTitle, listener>>
    /\ UNCHANGED rewriterVars

\* a reload that is to be added to the history
handleReloadPushing ==
    /\ ~isLoading
    /\ currentUrl # "" => Room(FALSE)
    /\ IF currentUrl # ""
       THEN loadUrl(currentUrl, TRUE, historyIndex)
       ELSE UNCHANGED <<errorMsg, currentUrl, inputUrl, inflight, isPending>>
    /\ UNCHANGED <<proxiedHtml, history, historyIndex, pageTitle, listener>>
    /\ UNCHANGED rewriterVars

\* the reload button, disabled={!currentUrl || isLoading}
handleReload ==
    /\ ~isLoading
    /\ currentUrl # "" => Room(FALSE)
    /\ IF currentUrl # ""
       THEN loadUrl(currentUrl, FALSE, historyIndex)
       ELSE UNCHANGED <<errorMsg, currentUrl, inputUrl, inflight, isPending>>
    /\ UNCHANGED <<proxiedHtml, history, historyIndex, pageTitle, listener>>
    /\ UNCHANGED rewriterVars

\* a clear that erases the navigation history with the view
handleClearHistory ==
    /\ Truthy(proxiedHtml) \/ Truthy(errorMsg)
    /\ proxiedHtml' = Null
    /\ errorMsg' = Null
    /\ currentUrl' = ""
    /\ inputUrl' = ""
    /\ pageTitle' = Null
    /\ listener' = Null
    /\ history' = <<>>
    /\ historyIndex' = -1
    /\ UNCHANGED <<inflight, isPending>>
    /\ UNCHANGED rewriterVars

\* the clear button, rendered when (proxiedHtml || errorMsg); unmounts the iframe
handleClear ==
    /\ Truthy(proxiedHtml) \/ Truthy(errorMsg)
    /\ proxiedHtml' = Null
    /\ errorMsg' = Null
    /\ currentUrl' = ""
    /\ inputUrl' = ""
    /\ pageTitle' = Null
    /\ listener' = Null
    /\ UNCHANGED <<history, historyIndex, inflight, isPending>>
    /\ UNCHANGED rewriterVars

\* the button of the error banner, rendered when errorMsg: setErrorMsg(null)
DismissError ==
    /\ Truthy(errorMsg)
    /\ errorMsg' = Null
    /\ UNCHANGED <<inputUrl, currentUrl, proxiedHtml, history, historyIndex, pageTitle,
                   inflight, isPending, listener>>
    /\ UNCHANGED rewriterVars

(***************************************************************************)
(* The iframe.  React sets srcDoc when proxiedHtml changes to another      *)
(* truthy string, which loads a new document without a listener; the       *)
(* iframe is unmounted, and its document gone, when proxiedHtml is falsy.  *)
(***************************************************************************)
RenderIframe ==
    listener' = IF Truthy(proxiedHtml') /\ proxiedHtml' = proxiedHtml THEN listener ELSE Null

\* onLoad of the iframe: the click listener added to the new document calls
\* the loadUrl of the current render, which captured the current historyIndex
handleIframeLoad ==
    /\ Truthy(proxiedHtml)
    /\ listener = Null
    /\ listener' = Some(historyIndex)
    /\ UNCHANGED <<inputUrl, currentUrl, proxiedHtml, errorMsg, history, historyIndex,
                   pageTitle, inflight, isPending>>
    /\ UNCHANGED rewriterVars

\* the click listener of the iframe's document
ClickAnchor(target) ==
    /\ Truthy(proxiedHtml)
    /\ listener # Null
    /\ target \in ClickTargetsOf[Val(proxiedHtml)]
    /\ IF ClickIgnoredOf[target]
       THEN UNCHANGED <<errorMsg, currentUrl, inputUrl, inflight, isPending>>
       ELSE /\ normalizeUrl(Val(EffectiveHrefOf[target])) # "" => Room(TRUE)
            /\ loadUrl(Val(EffectiveHrefOf[target]), TRUE, Val(listener))
    /\ UNCHANGED <<proxiedHtml, history, historyIndex, pageTitle, listener>>
    /\ UNCHANGED rewriterVars

(***************************************************************************)
(* The continuation of loadUrl behind its await.  The fetches in flight    *)
(* settle in any order.  isPending falls when the most recently issued     *)
(* mutation settles.                                                       *)
(***************************************************************************)
RemoveAt(q, i) == SubSeq(q, 1, i - 1) \o SubSeq(q, i + 1, Len(q))

\* the request is not the most recently issued one
Stale(i) == ~(isPending /\ i = Len(inflight))

Settle(i) ==
    /\ inflight' = RemoveAt(inflight, i)
    /\ isPending' = IF i = Len(inflight) THEN FALSE ELSE isPending

\* prev.slice(0, historyIndex + 1) with the historyIndex of the closure
Truncated(prev, captured) ==
    SubSeq(prev, 1, IF captured + 1 < Len(prev) THEN captured + 1 ELSE Len(prev))

\* an entry that loses its title
HistoryEntryUntitled(url, title) == [url |-> url, title |-> Null]

HistoryEntry(url, title) == [url |-> url, title |-> title]

\* mutateAsync resolves with html
FetchResolve(i, html) ==
    LET req == inflight[i] IN
    /\ Settle(i)
    /\ IF IsErrorSentinelOf[html]
       THEN /\ errorMsg' = Some(html)
            /\ proxiedHtml' = Null
            /\ UNCHANGED <<pageTitle, history, historyIndex>>
       ELSE LET rewritten == rewriteHtmlOf[html, req.url]
                title == extractTitleOf[html]
            IN /\ pageTitle' = title
               /\ proxiedHtml' = Some(rewritten)
               /\ IF req.addToHistory
                  THEN /\ history' = Append(Truncated(history, req.historyIndex),
                                            HistoryEntry(req.url, title))
                       /\ historyIndex' = historyIndex + 1
                  ELSE UNCHANGED <<history, historyIndex>>
               /\ UNCHANGED errorMsg
    /\ RenderIframe
    /\ UNCHANGED <<inputUrl, currentUrl>>
    /\ UNCHANGED rewriterVars

\* mutateAsync rejects with err: the catch block of loadUrl
\* a catch block that drops the message of the Error
ErrorMessageGeneric(err) == "An unexpected error occurred."

ErrorMessage(err) ==
    IF err.isError THEN err.message ELSE "An unexpected error occurred."

FetchReject(i, err) ==
    /\ Settle(i)
    /\ errorMsg' = Some(ErrorMessage(err))
    /\ proxiedHtml' = Null
    /\ RenderIframe
    /\ UNCHANGED <<inputUrl, currentUrl, pageTitle, history, historyIndex>>
    /\ UNCHANGED rewriterVars

Next ==
    \/ \E value \in RawInputs : SetInputUrl(value)
    \/ ResetInputUrl
    \/ handleSubmit
    \/ handleBack
    \/ handleForward
    \/ handleReload
    \/ handleClear
    \/ DismissError
    \/ handleIframeLoad
    \/ \E target \in (IF Truthy(proxiedHtml) THEN ClickTargetsOf[Val(proxiedHtml)] ELSE {}) :
          ClickAnchor(target)
    \/ \E i \in 1..Len(inflight) : \E html \in Responses : FetchResolve(i, html)
    \/ \E i \in 1..Len(inflight) : \E err \in Rejections : FetchReject(i, err)

Spec == Init /\ [][Next]_vars

(***************************************************************************)
(* The rewriter by itself.  A call is drawn from the references, the base  *)
(* URLs and the markups below; resolveUrl exists only inside a rewriteHtml *)
(* whose new URL(baseUrl) did not throw.  rewriteHtml is applied to the    *)
(* markup and then again to what it returned.                              *)
(***************************************************************************)
References == {"", "data:,x", "javascript:v()", "#f", "http://h/p", "https://h",
               "//h/p", "//", "/path", "/", "p?q", "../u"}

\* base URLs that new URL accepts: two of origin https://a.com, one of another
ParseableBaseUrls == {"https://a.com", "https://a.com/d/e/f.html", "http://b:81/d/"}

BaseUrls == ParseableBaseUrls \cup {"https://^"}

Markups == {"<head></head><a href=\"p\">x</a>",
            "<head><base href=\"/b/\"></head><a href='/q'>y</a>",
            "<HEAD lang=en><A HREF = \"//h/p\" >u</A>",
            "<header>h</header>",
            "<p style=\"background:url( 'i.png' )\">t</p>",
            "<a data-href=\"/x\" href=\"/y\">z</a>"}

Calls == [op : {"resolve"}, arg : References, baseUrl : ParseableBaseUrls]
         \cup [op : {"rewrite"}, arg : Markups, baseUrl : BaseUrls]

RewriterInit ==
    /\ Mounted
    /\ call \in {Some(c) : c \in Calls}
    /\ results = <<>>

\* base, baseOrigin and basePath as rewriteHtml computes them from baseUrl
ContextOf(baseUrl) == BaseContext(Val(ParseUrl(baseUrl)))

\* resolveUrl(url) inside rewriteHtml(html, baseUrl)
Resolve ==
    /\ call # Null
    /\ Val(call).op = "resolve"
    /\ results = <<>>
    /\ results' = <<resolveUrl(Val(call).arg, ContextOf(Val(call).baseUrl))>>
    /\ UNCHANGED call
    /\ UNCHANGED appVars

\* rewriteHtml(html, baseUrl), and again on its output
Rewrite ==
    /\ call # Null
    /\ Val(call).op = "rewrite"
    /\ Len(results) < MaxRewrites
    /\ results' = Append(results,
                         rewriteHtml(IF results = <<>> THEN Val(call).arg
                                     ELSE results[Len(results)],
                                     Val(call).baseUrl))
    /\ UNCHANGED call
    /\ UNCHANGED appVars

RewriterNext == Resolve \/ Rewrite

RewriterSpec == RewriterInit /\ [][RewriterNext]_vars

(***************************************************************************)
(* Vocabulary of the properties.                                           *)
(***************************************************************************)
\* the step is the continuation of the loadUrl of the i-th fetch in flight
Succeeds(i) == \E html \in Pages : FetchResolve(i, html)
FailsBySentinel(i) == \E html \in Sentinels : FetchResolve(i, html)
FailsByRejection(i) == \E err \in Rejections : FetchReject(i, err)
Completes(i) == Succeeds(i) \/ FailsBySentinel(i) \/ FailsByRejection(i)

\* the step is a click on some element of the document in the iframe
ClickAnywhere ==
    \E target \in (IF Truthy(proxiedHtml) THEN ClickTargetsOf[Val(proxiedHtml)] ELSE {}) :
        ClickAnchor(target)

\* the step passes a request to the gateway, which is then the newest in flight
Issues == Len(inflight') = Len(inflight) + 1
Newest(q) == q[Len(q)]

\* the first n elements of q, all of q when it has fewer
Take(q, n) == SubSeq(q, 1, IF n < Len(q) THEN n ELSE Len(q))

(***************************************************************************)
(* C1.  The history cursor is inside the history: if the history is not    *)
(* empty then 0 <= cursor < length, and the cursor is -1 exactly when the  *)
(* history is empty.                                                       *)
(***************************************************************************)
CursorInsideHistory ==
    /\ Len(history) > 0 => (0 <= historyIndex /\ historyIndex < Len(history))
    /\ (historyIndex = -1) <=> (Len(history) = 0)

(***************************************************************************)
(* C2.  Last intent wins: when the fetch of a navigation settles after a   *)
(* later navigation was issued, it leaves the rendered markup, the error,  *)
(* the title and the history as they are.                                  *)
(***************************************************************************)
StaleFetchLeavesState ==
    [][\A i \in 1..Len(inflight) :
          (Stale(i) /\ Completes(i))
             => UNCHANGED <<proxiedHtml, errorMsg, pageTitle, history, historyIndex>>]_vars

(***************************************************************************)
(* C3.  When the fetch of a submit or clickLink (a request that is to be   *)
(* added to the history) succeeds while the cursor is not on the last      *)
(* entry, the history becomes the entries up to the cursor followed by the *)
(* new entry, with the cursor on the new last entry.                       *)
(***************************************************************************)
FreshNavigationTruncates ==
    [][\A i \in 1..Len(inflight) : \A html \in Pages :
          (FetchResolve(i, html) /\ inflight[i].addToHistory
                                 /\ historyIndex < Len(history) - 1)
             => /\ history' = Append(Take(history, historyIndex + 1),
                                     [url |-> inflight[i].url,
                                      title |-> extractTitleOf[html]])
                /\ historyIndex' = Len(history') - 1]_vars

(***************************************************************************)
(* C4.  With no fetch in flight, exactly one of the rendered markup and    *)
(* the error is non-null when the current URL is not empty, and both are   *)
(* null when it is empty.                                                  *)
(***************************************************************************)
ExactlyOneOfMarkupAndError ==
    inflight = <<>> =>
        /\ currentUrl # "" => ((proxiedHtml # Null) # (errorMsg # Null))
        /\ currentUrl = "" => (proxiedHtml = Null /\ errorMsg = Null)

(***************************************************************************)
(* C5.  An error is never stored together with rendered markup.            *)
(***************************************************************************)
NoMarkupBesideError == ~(errorMsg # Null /\ proxiedHtml # Null)

(***************************************************************************)
(* C6.  A fetch that resolves with an error sentinel, whatever intent      *)
(* issued it, stores the sentinel as the error, drops the rendered markup  *)
(* and leaves the title, the history and the cursor as they are.           *)
(***************************************************************************)
SentinelEndsInFailed ==
    [][\A i \in 1..Len(inflight) : \A html \in Sentinels :
          FetchResolve(i, html)
             => /\ errorMsg' = Some(html)
                /\ proxiedHtml' = Null
                /\ UNCHANGED <<pageTitle, history, historyIndex>>]_vars

\* a navigation from a loaded page was answered "Http Error 5"
SentinelFailureReached ==
    /\ errorMsg = Some("Http Error 5")
    /\ proxiedHtml = Null
    /\ Len(history) > 0
    /\ currentUrl = "https://^"

EntryAppendedExactlyOnSuccess ==
    [][/\ ((handleSubmit \/ ClickAnywhere) /\ Issues) => Newest(inflight').addToHistory
       /\ ((handleBack \/ handleForward \/ handleReload) /\ Issues)
             => ~Newest(inflight').addToHistory
       /\ \A i \in 1..Len(inflight) : \A html \in Pages :
             (FetchResolve(i, html) /\ inflight[i].addToHistory)
                => /\ \E k \in 0..Len(history) :
                         history' = Append(Take(history, k),
                                           [url |-> inflight[i].url,
                                            title |-> extractTitleOf[html]])
                   /\ historyIndex' = historyIndex + 1
       /\ history' # history
             => \E i \in 1..Len(inflight) : Succeeds(i) /\ inflight[i].addToHistory
       /\ \A i \in 1..Len(inflight) :
             (FailsBySentinel(i) \/ FailsByRejection(i))
                => UNCHANGED <<history, historyIndex>>]_vars

\* the click on the link of the page pushed the entry of https://^
ClickPushedEntry ==
    /\ Len(history) >= 2
    /\ historyIndex = Len(history) - 1
    /\ history[Len(history)] = [url |-> "https://^", title |-> Some("T")]
    /\ inflight = <<>>

(***************************************************************************)
(* C9.  back() with the cursor above 0 moves the cursor down by one and    *)
(* issues a fetch, not to be added to the history, for the URL of the      *)
(* entry the cursor is then on, and leaves the entries of the history as   *)
(* they are, as does the completion of a fetch that is not to be added;    *)
(* with the cursor at 0 or below it changes nothing and issues no fetch.   *)
(***************************************************************************)
BackReplaysEntryAtCursor ==
    [][/\ handleBack =>
            IF historyIndex > 0
            THEN /\ historyIndex' = historyIndex - 1
                 /\ Issues
                 /\ ~Newest(inflight').addToHistory
                 /\ historyIndex' + 1 \in 1..Len(history)
                 /\ Newest(inflight').url = history[historyIndex' + 1].url
                 /\ UNCHANGED history
            ELSE UNCHANGED vars
       /\ \A i \in 1..Len(inflight) :
             (~inflight[i].addToHistory /\ Completes(i)) => UNCHANGED history]_vars

(***************************************************************************)
(* C10.  forward() with the cursor below the last entry moves the cursor   *)
(* up by one and issues a fetch, not to be added to the history, for the   *)
(* URL of the entry the cursor is then on, and leaves the entries of the   *)
(* history as they are, as does the completion of a fetch that is not to   *)
(* be added; with the cursor on the last entry or beyond, or with an empty *)
(* history, it changes nothing and issues no fetch.                        *)
(***************************************************************************)
ForwardReplaysEntryAtCursor ==
    [][/\ handleForward =>
            IF historyIndex < Len(history) - 1
            THEN /\ historyIndex' = historyIndex + 1
                 /\ Issues
                 /\ ~Newest(inflight').addToHistory
                 /\ historyIndex' + 1 \in 1..Len(history)
                 /\ Newest(inflight').url = history[historyIndex' + 1].url
                 /\ UNCHANGED history
            ELSE UNCHANGED vars
       /\ \A i \in 1..Len(inflight) :
             (~inflight[i].addToHistory /\ Completes(i)) => UNCHANGED history]_vars

\* a forward replay from the first of two different entries is in flight
ForwardReplayIssued ==
    /\ Len(history) = 2
    /\ history[1].url # history[2].url
    /\ historyIndex = 1
    /\ Len(inflight) = 1
    /\ ~inflight[1].addToHistory
    /\ inflight[1].url = history[2].url


(***************************************************************************)
(* C11.  clear() sets the current URL to empty and the rendered markup,    *)
(* the error and the page title to null, and leaves the entries of the     *)
(* history and the cursor as they are.                                     *)
(***************************************************************************)
ClearKeepsHistory ==
    [][handleClear
          => /\ currentUrl' = ""
             /\ proxiedHtml' = Null
             /\ errorMsg' = Null
             /\ pageTitle' = Null
             /\ UNCHANGED <<history, historyIndex>>]_vars

\* the view was cleared after pages had been pushed on the history
ClearedWithHistory ==
    /\ currentUrl = ""
    /\ proxiedHtml = Null
    /\ errorMsg = Null
    /\ pageTitle = Null
    /\ Len(history) >= 2
    /\ historyIndex = Len(history) - 1
    /\ inflight = <<>>


(***************************************************************************)
(* Vocabulary of the properties of targets and clicks.                     *)
(***************************************************************************)
\* the elements a click can hit in the document the iframe shows
Clickable == IF Truthy(proxiedHtml) THEN ClickTargetsOf[Val(proxiedHtml)] ELSE {}

\* the effective destination of a click target, "" when it has none
Destination(target) ==
    IF target = NoAnchor \/ EffectiveHrefOf[target] = Null THEN ""
    ELSE Val(EffectiveHrefOf[target])

\* the target is empty or consists of white space
Blank(target) == trim(target) = ""

\* the step issues no fetch and leaves what the user sees and the history
NoOp == UNCHANGED <<navState, inflight, isPending>>

(***************************************************************************)
(* C12.  A submit, clickLink or reload whose target is empty or consists   *)
(* of white space is a no-op: no fetch is issued, and the current URL, the *)
(* rendered markup, the error, the title, the history and the cursor are   *)
(* unchanged.                                                              *)
(***************************************************************************)
BlankTargetIsNoOp ==
    [][/\ (handleSubmit /\ Blank(inputUrl)) => NoOp
       /\ (handleReload /\ Blank(currentUrl)) => NoOp
       /\ \A target \in Clickable :
             (ClickAnchor(target) /\ DefaultPreventedOf[target] /\ Blank(Destination(target)))
                => NoOp]_vars

\* a page is shown whose document has an anchor with a blank destination that
\* the click listener passes to loadUrl, and the URL input holds a blank
BlankTargetsAtHand ==
    /\ inputUrl = " "
    /\ ~isPending
    /\ listener # Null
    /\ \E target \in Clickable :
          DefaultPreventedOf[target] /\ Destination(target) = " "

(***************************************************************************)
(* C13.  Every URL handed to the gateway, the current URL when it is not   *)
(* empty and the URL of every history entry is normalized: a fetch is      *)
(* issued for the trimmed target if that begins with http:// or https://   *)
(* and else for "https://" followed by the trimmed target, that URL is the *)
(* current URL, and each of these URLs begins with http:// or https://.    *)
(***************************************************************************)
NormalForm(target) ==
    IF startsWith(trim(target), "http://") \/ startsWith(trim(target), "https://")
    THEN trim(target)
    ELSE "https://" \o trim(target)

StoredUrls ==
    {inflight[i].url : i \in 1..Len(inflight)}
    \cup {history[k].url : k \in 1..Len(history)}
    \cup ({currentUrl} \ {""})

EveryUrlNormalized ==
    [][/\ (handleSubmit /\ Issues) => Newest(inflight').url = NormalForm(inputUrl)
       /\ (handleReload /\ Issues) => Newest(inflight').url = NormalForm(currentUrl)
       /\ ((handleBack \/ handleForward) /\ Issues)
             => Newest(inflight').url = NormalForm(history[historyIndex' + 1].url)
       /\ \A target \in Clickable :
             (ClickAnchor(target) /\ Issues)
                => Newest(inflight').url = NormalForm(Destination(target))
       /\ Issues => currentUrl' = Newest(inflight').url
       /\ \A u \in StoredUrls' : startsWith(u, "http://") \/ startsWith(u, "https://")]_vars

\* the typed " a " and the link of the rewritten page are in the history, and
\* the fetch for the link "//^" of the page that was not rewritten is in flight
NormalizedUrlsStored ==
    /\ Len(history) = 2
    /\ history[1].url = "https://a"
    /\ history[2].url = "https://^"
    /\ Len(inflight) = 1
    /\ inflight[1].url = "https:////^"
    /\ currentUrl = "https:////^"

(***************************************************************************)
(* C14.  A click in the rendered document: when there is no enclosing      *)
(* anchor, or the effective destination (the data-proxy-href marker when   *)
(* it is present and not empty, else the live href) starts with "#" or     *)
(* "javascript:", no clickLink is issued and the default action is not     *)
(* prevented; otherwise the default action and the propagation are         *)
(* suppressed and one clickLink is issued with the effective destination.  *)
(***************************************************************************)
LeftToBrowser(target) ==
    \/ target = NoAnchor
    \/ startsWith(Destination(target), "#")
    \/ startsWith(Destination(target), "javascript:")

\* loadUrl is called with the destination: a fetch to be added to the history
\* is issued for it, unless it is blank
ClickLinkIssued(destination) ==
    IF Blank(destination) THEN NoOp
    ELSE /\ Issues
         /\ Newest(inflight').url = normalizeUrl(destination)
         /\ Newest(inflight').addToHistory

ClickInterception ==
    [][/\ (Truthy(proxiedHtml') /\ listener' # Null)
             => \A target \in ClickTargetsOf[Val(proxiedHtml')] :
                    DefaultPreventedOf[target] <=> ~LeftToBrowser(target)
       /\ \A target \in Clickable :
             ClickAnchor(target)
                => IF LeftToBrowser(target) THEN NoOp
                   ELSE ClickLinkIssued(Destination(target))]_vars


(***************************************************************************)
(* Vocabulary of the properties of the rewriter by itself.                 *)
(***************************************************************************)
\* resolveUrl was called with reference and base URL and has returned
Resolved(reference, baseUrl) ==
    /\ call = Some([op |-> "resolve", arg |-> reference, baseUrl |-> baseUrl])
    /\ results # <<>>

\* rewriteHtml was called with markup and requested URL and has returned n times
Rewritten(markup, baseUrl, n) ==
    /\ call = Some([op |-> "rewrite", arg |-> markup, baseUrl |-> baseUrl])
    /\ Len(results) >= n

(***************************************************************************)
(* C15.  resolve returns the reference unchanged, for every base, when the *)
(* reference is empty or begins with data:, javascript:, #, http:// or     *)
(* https://.                                                               *)
(***************************************************************************)
PassedThrough(reference) ==
    \/ reference = ""
    \/ \E prefix \in {"data:", "javascript:", "#", "http://", "https://"} :
          startsWith(reference, prefix)

AbsoluteReferenceUnchanged ==
    \A reference \in References, baseUrl \in ParseableBaseUrls :
        (Resolved(reference, baseUrl) /\ PassedThrough(reference))
            => results = <<reference>>

\* an https reference was resolved against an http base of another host
AbsoluteReferenceResolved ==
    /\ Resolved("https://h", "http://b:81/d/")
    /\ results = <<"https://h">>

(***************************************************************************)
(* C16.  resolve applies its rules in order and the first match wins: a    *)
(* reference that begins with "//" gives the protocol of the base followed *)
(* by the reference, and is never taken for root-relative; a reference     *)
(* that begins with a single "/" gives the origin of the base followed by  *)
(* the reference, whatever the depth of the path of the base: "/path"      *)
(* against a base of origin https://a.com gives https://a.com/path.        *)
(***************************************************************************)
\* protocol and origin of the base URLs of the model, as they are written
ProtocolOf(baseUrl) == IF startsWith(baseUrl, "https:") THEN "https:" ELSE "http:"
OriginOf(baseUrl) == IF startsWith(baseUrl, "https://a.com") THEN "https://a.com"
                     ELSE "http://b:81"

SlashRulesInOrder ==
    \A reference \in References, baseUrl \in ParseableBaseUrls :
        Resolved(reference, baseUrl)
            => /\ startsWith(reference, "//")
                    => results = <<ProtocolOf(baseUrl) \o reference>>
               /\ (startsWith(reference, "/") /\ ~startsWith(reference, "//"))
                    => results = <<OriginOf(baseUrl) \o reference>>
               /\ (reference = "/path" /\ OriginOf(baseUrl) = "https://a.com")
                    => results = <<"https://a.com/path">>

\* "/path" was resolved against a base whose path is three segments deep
RootRelativeResolved ==
    /\ Resolved("/path", "https://a.com/d/e/f.html")
    /\ results = <<"https://a.com/path">>


(***************************************************************************)
(* C17.  rewrite is idempotent on the injection of the base tag: applied   *)
(* to its own output, with the same requested URL u, it gives markup with  *)
(* no more base elements than that output has; and it inserts a base       *)
(* element only into markup that has none, and then directly after the     *)
(* head-opening tag and with href = u.                                     *)
(***************************************************************************)
\* where the start tags of the elements of this name begin; l is doc in lower case
ElementStartsIn(doc, l, name) ==
    {i \in 1..Len(doc) :
        /\ startsWithAt(l, "<" \o name, i)
        /\ i + Len(name) + 1 <= Len(doc)
        /\ (IsWhitespace(CharAt(doc, i + Len(name) + 1))
            \/ CharAt(doc, i + Len(name) + 1) \in {">", "/"})}

ElementStarts(doc, name) == ElementStartsIn(doc, toLowerCase(doc), name)

BaseCount(doc) == Cardinality(ElementStarts(doc, "base"))

\* text stands directly behind the start tag of the first head element
DirectlyAfterHead(doc, text) ==
    \E i \in ElementStarts(doc, "head") :
        /\ \A j \in ElementStarts(doc, "head") : i <= j
        /\ FirstGt(doc, i) # 0
        /\ startsWithAt(doc, text, FirstGt(doc, i) + 1)

BaseInjectedOnce ==
    \A markup \in Markups, u \in BaseUrls :
        /\ Rewritten(markup, u, 2) => BaseCount(results[2]) <= BaseCount(results[1])
        /\ (Rewritten(markup, u, 1) /\ BaseCount(results[1]) > BaseCount(markup))
              => /\ BaseCount(markup) = 0
                 /\ BaseCount(results[1]) = 1
                 /\ DirectlyAfterHead(results[1], "<base href=\"" \o u \o "\">")


(***************************************************************************)
(* C18.  A failure of the rewriter is not surfaced as a navigation error:  *)
(* when the requested URL is not parseable as a base URL, rewrite returns  *)
(* the markup unmodified, and the load that fetched ordinary content ends  *)
(* in Loaded, with that unmodified markup and a null error.                *)
(***************************************************************************)
\* the URLs of the model of which new URL throws
UnparseableUrls == {u \in FetchedUrls : ParseUrl(u) = Null}

RewriteFailureNotSurfaced ==
    [][\A i \in 1..Len(inflight) : \A html \in Pages :
          (FetchResolve(i, html) /\ inflight[i].url \in UnparseableUrls)
             => /\ proxiedHtml' = Some(html)
                /\ errorMsg' = Null]_vars

(***************************************************************************)
(* C19.  For every anchor whose href the rewriter rewrites, the anchor of  *)
(* the output carries both href and the data-proxy-href marker, and both   *)
(* hold resolve(original href); so the destination that the click          *)
(* interceptor takes from a rewritten anchor is the URL resolved at        *)
(* rewrite time.                                                           *)
(***************************************************************************)
\* where the start tags of the a elements of a document begin
AnchorStarts(doc) == {i \in ElementStarts(doc, "a") : FirstGt(doc, i) # 0}

\* the start tag of the n-th a element of a document
NthAnchorAt(doc, P, n) ==
    SubSeq(doc, Min({p \in P : Cardinality({q \in P : q < p}) = n - 1}),
                FirstGt(doc, Min({p \in P : Cardinality({q \in P : q < p}) = n - 1})))

NthAnchor(doc, n) == NthAnchorAt(doc, AnchorStarts(doc), n)

\* the anchor carries href and marker, both with this value, and a click on it
\* is taken to this value
CarriesDestination(anchor, value) ==
    /\ getAttribute(anchor, "href") = Some(value)
    /\ getAttribute(anchor, "data-proxy-href") = Some(value)
    /\ EffectiveHref(anchor) = Some(value)

MarkerHoldsResolvedHref ==
    \A markup \in Markups, u \in ParseableBaseUrls :
        Rewritten(markup, u, 1)
            => /\ Cardinality(AnchorStarts(results[1])) = Cardinality(AnchorStarts(markup))
               /\ \A n \in 1..Cardinality(AnchorStarts(markup)) :
                     (/\ getAttribute(NthAnchor(markup, n), "href") # Null
                      /\ NthAnchor(results[1], n) # NthAnchor(markup, n))
                        => CarriesDestination(
                               NthAnchor(results[1], n),
                               resolveUrl(Val(getAttribute(NthAnchor(markup, n), "href")),
                                          ContextOf(u)))

(***************************************************************************)
(* C20.  reload() issues a fetch for the current URL only when the current *)
(* URL is not empty, and neither issuing it nor its completion, by success *)
(* or by failure, changes the entries of the history or the cursor.        *)
(***************************************************************************)
ReloadKeepsHistory ==
    [][/\ handleReload =>
            IF currentUrl # ""
            THEN /\ Issues
                 /\ Newest(inflight').url = currentUrl
                 /\ ~Newest(inflight').addToHistory
                 /\ UNCHANGED <<history, historyIndex>>
            ELSE UNCHANGED vars
       /\ \A i \in 1..Len(inflight) :
             (~inflight[i].addToHistory /\ Completes(i))
                => UNCHANGED <<history, historyIndex>>]_vars

\* a page is shown and the history is empty: the page of a reload that
\* followed a failed submit
ReloadedWithoutEntry ==
    /\ history = <<>>
    /\ historyIndex = -1
    /\ Truthy(proxiedHtml)
    /\ currentUrl = "https://a"
    /\ inflight = <<>>

(***************************************************************************)
(* C21.  clear() supersedes a load in flight: when the view was cleared    *)
(* while a fetch was pending and no navigation was issued since, the       *)
(* completion of that fetch, by success or by failure, leaves the view     *)
(* cleared (current URL empty; markup, error and title null) and the       *)
(* history and the cursor as they are.                                     *)
(***************************************************************************)
\* the view as handleClear leaves it
Cleared ==
    /\ currentUrl = ""
    /\ proxiedHtml = Null
    /\ errorMsg = Null
    /\ pageTitle = Null

\* currentUrl is empty only at mount and after handleClear, and every loadUrl
\* that reaches the gateway sets it: the fetches in flight were all pending
\* at the clear, and nothing was issued since
ClearedWhilePending == Cleared /\ inflight # <<>>

ClearSupersedesLoad ==
    [][\A i \in 1..Len(inflight) :
          (ClearedWhilePending /\ Completes(i))
             => /\ Cleared'
                /\ UNCHANGED <<history, historyIndex>>]_vars

(***************************************************************************)
(* C22.  Whenever no fetch is in flight and markup is shown after a        *)
(* submit, clickLink, back or forward, the current URL is the url of the   *)
(* history entry at the cursor.  A back or forward puts the cursor on the  *)
(* entry it requests and its completion moves neither; a submit or         *)
(* clickLink pushes its entry when it succeeds, and the cursor is on the   *)
(* entry of the current URL when that leaves no fetch in flight and the    *)
(* view was not cleared meanwhile, also when the link was clicked while a  *)
(* replay was loading.                                                     *)
(***************************************************************************)
\* the cursor is on an entry of the history and that entry has the current URL
AtCursor ==
    /\ 0 <= historyIndex
    /\ historyIndex < Len(history)
    /\ history[historyIndex + 1].url = currentUrl

CurrentUrlAtCursor ==
    [][/\ ((handleBack \/ handleForward) /\ Issues) => AtCursor'
       /\ \A i \in 1..Len(inflight) :
             /\ (~inflight[i].addToHistory /\ Completes(i))
                   => UNCHANGED <<currentUrl, history, historyIndex>>
             /\ (/\ inflight[i].addToHistory
                 /\ inflight[i].url = currentUrl
                 /\ Succeeds(i)
                 /\ inflight' = <<>>) => AtCursor']_vars

(***************************************************************************)
(* C23.  Whenever no fetch is in flight and pageTitle is not null,         *)
(* pageTitle is the title extracted from the response whose markup is      *)
(* rendered; after a load that ended in Failed, where no markup is         *)
(* rendered, the title of the page loaded before is no longer stored.      *)
(***************************************************************************)
\* the markup rendered is the rewriting of html for some fetched URL
RenderedFrom(html) ==
    \E url \in FetchedUrls : proxiedHtml = Some(rewriteHtmlOf[html, url])

TitleOfRenderedMarkup ==
    (inflight = <<>> /\ pageTitle # Null)
        => \E html \in Pages :
              /\ RenderedFrom(html)
              /\ pageTitle = extractTitleOf[html]

(***************************************************************************)
(* The App with a gateway that answers: mutateAsync settles every call.    *)
(* Weak fairness on settling the call that has been in flight the longest: *)
(* the calls still settle in any order, and none stays in flight for ever. *)
(***************************************************************************)
SettleOldest ==
    /\ inflight # <<>>
    /\ \/ \E html \in Responses : FetchResolve(1, html)
       \/ \E err \in Rejections : FetchReject(1, err)

FairSpec == Init /\ [][Next]_vars /\ WF_vars(SettleOldest)

\* the step is an intent of the user: submit, clickLink, back, forward,
\* reload or clear
Intent ==
    \/ handleSubmit
    \/ handleBack
    \/ handleForward
    \/ handleReload
    \/ handleClear
    \/ ClickAnywhere

\* the states of the controller that end a load
Loaded == Truthy(proxiedHtml) /\ errorMsg = Null
Failed == Truthy(errorMsg) /\ proxiedHtml = Null

(***************************************************************************)
(* C24.  Every intent that enters Loading leaves it: if the gateway        *)
(* settles every call and from some point on no further intent is issued,  *)
(* then Loading is always followed by a state that is not Loading and is   *)
(* Loaded (markup, no error) or Failed (error, no markup).                 *)
(***************************************************************************)
LoadingEnds ==
    (<>[][~Intent]_vars) => [](isLoading => <>(~isLoading /\ (Loaded \/ Failed)))

====
